---------------------------- MODULE Spec2Model ----------------------------
(***************************************************************************)
(* Model of the Upwork job dashboard: the text parsers and pay estimator   *)
(* of functions.py, the batch pipeline of 1-data_prep.py and the histogram *)
(* of 2-create_dashboard.py.                                               *)
(*                                                                         *)
(* A text is a sequence of one-character strings; the absent text (NaN in  *)
(* an object column) is the one-element sequence NaNText.  A number is a   *)
(* record [k, n, d]: k = "num" is the non-negative rational n/d in lowest  *)
(* terms, k = "nan" is float NaN, k = "err" is a raised ValueError.        *)
(* Floating-point rounding is not modelled: arithmetic is exact.           *)
(***************************************************************************)
EXTENDS Integers, Sequences, FiniteSets, TLC

VARIABLES
    row, called, result,                       \* functions.py called on one record
    input, df, columns, pc,                    \* 1-data_prep.py
    dash_df, selected_search_term, pay_data,   \* 2-create_dashboard.py
    counts, bins, hover_texts, dpc

vars == << row, called, result, input, df, columns, pc,
           dash_df, selected_search_term, pay_data, counts, bins, hover_texts, dpc >>

parseVars == << row, called, result >>
prepVars  == << input, df, columns, pc >>
dashVars  == << dash_df, selected_search_term, pay_data, counts, bins, hover_texts, dpc >>

---------------------------------------------------------------------------
(* Numbers *)

RECURSIVE GCD(_, _)
GCD(a, b) == IF b = 0 THEN a ELSE GCD(b, a % b)

Rat(n, d) == LET g == GCD(n, d) IN [k |-> "num", n |-> n \div g, d |-> d \div g]
Whole(n) == Rat(n, 1)
NaN == [k |-> "nan", n |-> 0, d |-> 1]
ValueError == [k |-> "err", n |-> 0, d |-> 1]

isnan(x) == x.k = "nan"
IsNum(x) == x.k = "num"

Mul(x, y) == IF IsNum(x) /\ IsNum(y) THEN Rat(x.n * y.n, x.d * y.d) ELSE NaN
Add(x, y) == IF IsNum(x) /\ IsNum(y) THEN Rat(x.n * y.d + y.n * x.d, x.d * y.d) ELSE NaN
Half(x) == IF IsNum(x) THEN Rat(x.n, 2 * x.d) ELSE NaN

\* np.nanmean of a two-element list: NaN entries are ignored, all-NaN gives NaN
nanmean(a, b) ==
    IF isnan(a) /\ isnan(b) THEN NaN
    ELSE IF isnan(a) THEN b
    ELSE IF isnan(b) THEN a
    ELSE Half(Add(a, b))

---------------------------------------------------------------------------
(* Texts *)

NaNText == << "NaN" >>
isna(text) == text = NaNText

Digits == {"0", "1", "2", "3", "4", "5", "6", "7", "8", "9"}
AmountChars == Digits \cup {",", "."}     \* the class [\d,\.]
Space == {" "}                            \* the class \s

DigitVal(c) ==
    CASE c = "0" -> 0 [] c = "1" -> 1 [] c = "2" -> 2 [] c = "3" -> 3 [] c = "4" -> 4
      [] c = "5" -> 5 [] c = "6" -> 6 [] c = "7" -> 7 [] c = "8" -> 8 [] c = "9" -> 9

Upper == << "A","B","C","D","E","F","G","H","I","J","K","L","M",
            "N","O","P","Q","R","S","T","U","V","W","X","Y","Z" >>
Lower == << "a","b","c","d","e","f","g","h","i","j","k","l","m",
            "n","o","p","q","r","s","t","u","v","w","x","y","z" >>

IsUpper(c) == \E i \in 1..26 : Upper[i] = c
IsLower(c) == \E i \in 1..26 : Lower[i] = c
IsAlpha(c) == IsUpper(c) \/ IsLower(c)
LowerChar(c) == IF IsUpper(c) THEN Lower[CHOOSE i \in 1..26 : Upper[i] = c] ELSE c
UpperChar(c) == IF IsLower(c) THEN Upper[CHOOSE i \in 1..26 : Lower[i] = c] ELSE c

\* str.lower()
lower(s) == [i \in 1..Len(s) |-> LowerChar(s[i])]

\* True iff the literal lit occurs in s starting at position i
LitAt(s, i, lit) ==
    /\ i + Len(lit) - 1 <= Len(s)
    /\ \A j \in 1..Len(lit) : s[i + j - 1] = lit[j]

\* lit in s
Contains(s, lit) == \E i \in 1..(Len(s) + 1) : LitAt(s, i, lit)

\* position just after the longest run of characters of class C starting at i
RECURSIVE RunEnd(_, _, _)
RunEnd(s, i, C) == IF i <= Len(s) /\ s[i] \in C THEN RunEnd(s, i + 1, C) ELSE i

Slice(s, i, j) == SubSeq(s, i, j - 1)      \* s[i:j], positions i .. j-1

\* str.replace(c, '')
Remove(s, c) == SelectSeq(s, LAMBDA x : x # c)

RECURSIVE DigitsVal(_)
DigitsVal(s) ==
    IF s = << >> THEN 0
    ELSE DigitsVal(SubSeq(s, 1, Len(s) - 1)) * 10 + DigitVal(s[Len(s)])

RECURSIVE Pow10(_)
Pow10(e) == IF e = 0 THEN 1 ELSE 10 * Pow10(e - 1)

\* float(s) for s made of digits and "." only: one optional point and at
\* least one digit ("5." and ".5" are accepted), anything else raises
\* ValueError
float(s) ==
    LET points == {i \in 1..Len(s) : s[i] = "."}
        digs   == Remove(s, ".")
    IN  IF Cardinality(points) > 1 \/ digs = << >> THEN ValueError
        ELSE IF points = {} THEN Whole(DigitsVal(digs))
        ELSE LET p == CHOOSE i \in points : TRUE
             IN  Rat(DigitsVal(digs), Pow10(Len(s) - p))

NoMatch == [found |-> FALSE, g1 |-> << >>, g2 |-> << >>]

\* re.search: the leftmost match among the matches tried at each position
FirstMatch(tries) ==
    IF \E i \in 1..Len(tries) : tries[i].found
    THEN tries[CHOOSE i \in 1..Len(tries) :
                  /\ tries[i].found
                  /\ \A j \in 1..(i - 1) : ~ tries[j].found]
    ELSE NoMatch

\* \$([\d,\.]+) at position i
AmountAt(s, i) ==
    IF i <= Len(s) /\ s[i] = "$" /\ RunEnd(s, i + 1, AmountChars) > i + 1
    THEN [found |-> TRUE, g1 |-> Slice(s, i + 1, RunEnd(s, i + 1, AmountChars)),
          g2 |-> << >>]
    ELSE NoMatch

\* \$([\d,\.]+)(?:\s*-\s*\$([\d,\.]+))? at position i; g2 = << >> when the
\* optional group does not take part
RateAt(s, i) ==
    LET first == AmountAt(s, i)
        e1    == i + 1 + Len(first.g1)
        dash  == RunEnd(s, e1, Space)
        snd   == AmountAt(s, RunEnd(s, dash + 1, Space))
    IN  IF ~ first.found THEN NoMatch
        ELSE IF dash <= Len(s) /\ s[dash] = "-" /\ snd.found
             THEN [found |-> TRUE, g1 |-> first.g1, g2 |-> snd.g1]
             ELSE first

\* optional "s" then the literal tail, e.g. hrs?/week, months?
UnitAt(s, i, stem, tail) ==
    /\ LitAt(s, i, stem)
    /\ \/ LitAt(s, i + Len(stem), <<"s">> \o tail)
       \/ LitAt(s, i + Len(stem), tail)

\* (\d+)\+?\s*hrs?/week at position i
HoursAt(s, i) ==
    LET e1   == RunEnd(s, i, Digits)
        plus == IF e1 <= Len(s) /\ s[e1] = "+" THEN e1 + 1 ELSE e1
        u    == RunEnd(s, plus, Space)
    IN  IF e1 > i /\ UnitAt(s, u, <<"h","r">>, <<"/","w","e","e","k">>)
        THEN [found |-> TRUE, g1 |-> Slice(s, i, e1), g2 |-> << >>]
        ELSE NoMatch

\* (\d+)\s*months? at position i
MonthsAt(s, i) ==
    LET e1 == RunEnd(s, i, Digits)
        u  == RunEnd(s, e1, Space)
    IN  IF e1 > i /\ LitAt(s, u, <<"m","o","n","t","h">>)
        THEN [found |-> TRUE, g1 |-> Slice(s, i, e1), g2 |-> << >>]
        ELSE NoMatch

\* (\d+)\s*to\s*(\d+)\s*months? at position i
RangeMonthsAt(s, i) ==
    LET e1 == RunEnd(s, i, Digits)
        t  == RunEnd(s, e1, Space)
        b  == RunEnd(s, t + 2, Space)
        m  == MonthsAt(s, b)
    IN  IF e1 > i /\ LitAt(s, t, <<"t","o">>) /\ m.found
        THEN [found |-> TRUE, g1 |-> Slice(s, i, e1), g2 |-> m.g1]
        ELSE NoMatch

---------------------------------------------------------------------------
(* functions.py *)

\* parse_hourly_rate returns the pair << min_rate, max_rate >>; a ValueError
\* raised by float() is the pair << ValueError, ValueError >>
parse_hourly_rate(text) ==
    IF isna(text) THEN << NaN, NaN >>
    ELSE LET match == FirstMatch([i \in 1..Len(text) |-> RateAt(text, i)])
             min_rate == float(Remove(match.g1, ","))
             max_rate == IF match.g2 # << >> THEN float(Remove(match.g2, ","))
                         ELSE min_rate
         IN  IF match.found
             THEN IF min_rate = ValueError \/ max_rate = ValueError
                  THEN << ValueError, ValueError >>
                  ELSE << min_rate, max_rate >>
             ELSE << NaN, NaN >>

parse_hours_per_week(text) ==
    IF isna(text) THEN NaN
    ELSE LET match == FirstMatch([i \in 1..Len(text) |-> HoursAt(text, i)])
         IN  IF match.found THEN float(match.g1)
             ELSE IF Contains(lower(text), <<"l","e","s","s"," ","t","h","a","n">>)
                  THEN Whole(25)
                  ELSE NaN

parse_duration_weeks(text) ==
    IF isna(text) THEN NaN
    ELSE LET range  == FirstMatch([i \in 1..Len(text) |-> RangeMonthsAt(text, i)])
             single == FirstMatch([i \in 1..Len(text) |-> MonthsAt(text, i)])
         IN  IF range.found
             THEN Mul(Half(Add(float(range.g1), float(range.g2))), Whole(4))
             ELSE IF single.found THEN Mul(float(single.g1), Whole(4))
             ELSE IF Contains(lower(text),
                       <<"l","e","s","s"," ","t","h","a","n"," ","1"," ","m","o","n","t","h">>)
                  THEN Whole(2)
                  ELSE NaN

parse_fixed_price(text) ==
    IF isna(text) THEN NaN
    ELSE LET match == FirstMatch([i \in 1..Len(text) |-> AmountAt(text, i)])
         IN  IF match.found THEN float(Remove(match.g1, ",")) ELSE NaN

HourlyWord == <<"h","o","u","r","l","y">>
FixedWord  == <<"f","i","x","e","d">>

\* isinstance(x, str): every text but the absent one (NaN is a float)
IsStr(text) == ~ isna(text)

estimate_total_pay(r) ==
    IF IsStr(r.hourly_or_fixed) /\ Contains(lower(r.hourly_or_fixed), HourlyWord)
    THEN LET rates == parse_hourly_rate(r.hourly_or_fixed)
             avg_rate == nanmean(rates[1], rates[2])
             hpw == parse_hours_per_week(r.duration_or_budget)
             wks == parse_duration_weeks(r.duration_or_budget)
             hours_per_week == IF isnan(hpw) THEN Whole(30) ELSE hpw
             weeks == IF isnan(wks) THEN Whole(8) ELSE wks
         IN  IF rates[1] = ValueError THEN ValueError
             ELSE Mul(Mul(avg_rate, hours_per_week), weeks)
    ELSE IF IsStr(r.hourly_or_fixed) /\ Contains(lower(r.hourly_or_fixed), FixedWord)
    THEN parse_fixed_price(r.duration_or_budget)
    ELSE NaN

\* 'Hourly', 'Fixed' or the absent text
get_pay_type(text) ==
    IF IsStr(text) /\ Contains(lower(text), HourlyWord) THEN <<"H","o","u","r","l","y">>
    ELSE IF IsStr(text) /\ Contains(lower(text), FixedWord) THEN <<"F","i","x","e","d">>
    ELSE NaNText

---------------------------------------------------------------------------
(* functions.py: the canonicalizers *)

\* dict lookup: the value of key in a set of key / value pairs, else dflt
Lookup(map, key, dflt) ==
    IF \E kv \in map : kv[1] = key
    THEN (CHOOSE kv \in map : kv[1] = key)[2]
    ELSE dflt

non_skills == {
    <<"f","e","m","a","l","e">>,
    <<"b","u","d","g","e","t">>,
    <<"c","o","m","p","a","n","y">>,
    <<"p","r","o","j","e","c","t">>,
    <<"a","r","t","i","c","l","e">>,
    <<"r","e","v","i","e","w">>,
    <<"a","d","v","e","r","t","i","s","e","m","e","n","t">>,
    <<"a","d","v","e","r","t","i","s","i","n","g">>,
    <<"m","e","d","i","a">>,
    <<"e","n","g","l","i","s","h">>,
    <<"a","c","c","u","r","a","c","y"," ","v","e","r","i","f","i","c","a","t","i","o","n">>,
    <<"c","a","s","u","a","l"," ","t","o","n","e">>,
    <<"p","r","e","s","e","n","t","a","t","i","o","n">>,
    <<"r","e","s","u","m","e">>,
    <<"e","r","r","o","r"," ","d","e","t","e","c","t","i","o","n">>,
    <<"d","r","a","f","t"," ","d","o","c","u","m","e","n","t","a","t","i","o","n">>,
    <<"p","r","o","d","u","c","t"," ","k","n","o","w","l","e","d","g","e">>,
    <<"c","l","i","e","n","t"," ","m","a","n","a","g","e","m","e","n","t">>,
    <<"c","o","m","m","u","n","i","c","a","t","i","o","n"," ","s","k","i","l","l","s">>,
    <<"c","r","i","t","i","c","a","l"," ","t","h","i","n","k","i","n","g"," ","s","k","i","l","l","s">>,
    <<"p","e","r","s","o","n","a","l"," ","c","o","m","p","u","t","e","r">>,
    <<"s","m","a","r","t","p","h","o","n","e">>,
    <<"p","h","o","n","e"," ","c","o","m","m","u","n","i","c","a","t","i","o","n">>,
    <<"a","c","c","o","u","n","t","s"," ","p","a","y","a","b","l","e">>,
    <<"a","c","c","o","u","n","t","s"," ","r","e","c","e","i","v","a","b","l","e">>,
    <<"c","u","s","t","o","m","e","r"," ","e","x","p","e","r","i","e","n","c","e">>,
    <<"h","e","a","p">>,
    <<"r","e","v","i","e","w">>,
    <<"s","c","i","e","n","t","i","s","t">>,
    <<"e","n","g","i","n","e","e","r">>,
    <<"e","n","g","i","n","e","e","r","i","n","g">>,
    <<"l","e","a","r","n">>,
    <<"l","e","a","r","n","i","n","g">>
}

\* key / value pairs of the synonym dictionary
canonical_map == {
    << <<"a","i">>,
       <<"A","r","t","i","f","i","c","i","a","l"," ","I","n","t","e","l","l","i","g","e","n","c","e">> >>,
    << <<"a","r","t","i","f","i","c","i","a","l">>,
       <<"A","r","t","i","f","i","c","i","a","l"," ","I","n","t","e","l","l","i","g","e","n","c","e">> >>,
    << <<"a","r","t","i","f","i","c","i","a","l"," ","i","n","t","e","l","l","i","g","e","n","c","e">>,
       <<"A","r","t","i","f","i","c","i","a","l"," ","I","n","t","e","l","l","i","g","e","n","c","e">> >>,
    << <<"m","a","c","h","i","n","e">>,
       <<"M","a","c","h","i","n","e"," ","L","e","a","r","n","i","n","g">> >>,
    << <<"m","a","c","h","i","n","e"," ","l","e","a","r","n","i","n","g">>,
       <<"M","a","c","h","i","n","e"," ","L","e","a","r","n","i","n","g">> >>,
    << <<"m","l">>,
       <<"M","a","c","h","i","n","e"," ","L","e","a","r","n","i","n","g">> >>,
    << <<"p","y","t","h","o","n">>,
       <<"P","y","t","h","o","n">> >>,
    << <<"d","a","t","a">>,
       <<"D","a","t","a"," ","S","c","i","e","n","c","e">> >>,
    << <<"d","a","t","a"," ","s","c","i","e","n","c","e">>,
       <<"D","a","t","a"," ","S","c","i","e","n","c","e">> >>,
    << <<"s","t","a","t","i","s","t","i","c","s">>,
       <<"S","t","a","t","i","s","t","i","c","s">> >>,
    << <<"s","t","a","t","i","s","t","i","c","a","l">>,
       <<"S","t","a","t","i","s","t","i","c","s">> >>,
    << <<"s","t","a","t","i","s","t","i","c">>,
       <<"S","t","a","t","i","s","t","i","c","s">> >>,
    << <<"d","e","e","p"," ","l","e","a","r","n","i","n","g">>,
       <<"D","e","e","p"," ","L","e","a","r","n","i","n","g">> >>,
    << <<"n","l","p">>,
       <<"N","a","t","u","r","a","l"," ","L","a","n","g","u","a","g","e"," ","P","r","o","c","e","s","s","i","n","g">> >>,
    << <<"n","a","t","u","r","a","l"," ","l","a","n","g","u","a","g","e"," ","p","r","o","c","e","s","s","i","n","g">>,
       <<"N","a","t","u","r","a","l"," ","L","a","n","g","u","a","g","e"," ","P","r","o","c","e","s","s","i","n","g">> >>
}

\* key / value pairs of the search-term dictionary
search_term_map == {
    << <<"a","i">>, <<"A","I">> >>,
    << <<"a","r","t","i","f","i","c","i","a","l">>, <<"A","I">> >>,
    << <<"i","n","t","e","l","l","i","g","e","n","t">>, <<"A","I">> >>,
    << <<"m","a","c","h","i","n","e">>, <<"M","L">> >>,
    << <<"l","e","a","r","n","i","n","g">>, <<"M","L">> >>,
    << <<"s","t","a","t","i","s","t","i","c","s">>, <<"s","t","a","t","i","s","t","i","c","s">> >>,
    << <<"e","n","g","i","n","e","e","r">>, <<"d","a","t","a"," ","e","n","g","i","n","e","e","r","i","n","g">> >>,
    << <<"d","a","t","a">>, <<"d","a","t","a"," ","e","n","g","i","n","e","e","r","i","n","g">> >>,
    << <<"p","y","t","h","o","n">>, <<"d","a","t","a"," ","e","n","g","i","n","e","e","r","i","n","g">> >>
}

\* Series.ffill(): an absent entry takes the last non-absent entry before it
ffill(col) ==
    [i \in 1..Len(col) |->
        IF ~ isna(col[i]) THEN col[i]
        ELSE IF \E j \in 1..(i - 1) : ~ isna(col[j])
             THEN col[CHOOSE j \in 1..(i - 1) :
                        /\ ~ isna(col[j])
                        /\ \A m \in (j + 1)..(i - 1) : isna(col[m])]
             ELSE NaNText]

\* the new search_term column computed from the current one
standardize_search_term_column(col) ==
    LET filled  == ffill(col)
        lowered == [i \in 1..Len(col) |->
                       IF isna(filled[i]) THEN NaNText ELSE lower(filled[i])]
    IN  [i \in 1..Len(col) |->
            IF isna(lowered[i]) THEN NaNText
            ELSE Lookup(search_term_map, lowered[i], NaNText)]

\* str.strip()
RECURSIVE strip(_)
strip(s) ==
    IF s = << >> THEN s
    ELSE IF s[1] \in Space THEN strip(Tail(s))
    ELSE IF s[Len(s)] \in Space THEN strip(SubSeq(s, 1, Len(s) - 1))
    ELSE s

\* str.title(): a letter is upper-cased after a non-letter, lower-cased after
\* a letter
title(s) ==
    [i \in 1..Len(s) |->
        IF i > 1 /\ IsAlpha(s[i - 1]) THEN LowerChar(s[i]) ELSE UpperChar(s[i])]

\* re.match(r'^\+\d+$', s)
IsPlusDigits(s) ==
    /\ Len(s) >= 2
    /\ s[1] = "+"
    /\ \A i \in 2..Len(s) : s[i] \in Digits

\* None is the absent text
clean_and_standardize_skill(skill) ==
    IF isna(skill) \/ strip(skill) = << >> THEN NaNText
    ELSE IF IsPlusDigits(strip(skill)) THEN NaNText
    ELSE LET skill_lower == lower(strip(skill))
         IN  IF skill_lower \in non_skills THEN NaNText
             ELSE IF \E kv \in canonical_map : kv[1] = skill_lower
                  THEN Lookup(canonical_map, skill_lower, NaNText)
                  ELSE title(strip(skill))

---------------------------------------------------------------------------
(* Input texts: concatenations of a few fragments of the scraped fields *)

F_Hourly == <<"H","o","u","r","l","y",":"," ">>
F_Fixed == <<"F","i","x","e","d","-","p","r","i","c","e">>
F_Range == <<"$","2","0",".","0","0"," ","-"," ","$","4","0",".","0","0">>
F_Single == <<"$","7","5",".","0","0">>
F_Comma == <<"$","1",",","0","0","0",".","5","0">>
F_BadAmt == <<"$",",">>
D_LessThan == <<"L","e","s","s"," ","t","h","a","n"," ">>
D_30plus == <<"3","0","+"," ","h","r","s","/","w","e","e","k">>
D_30 == <<"3","0"," ","h","r","s","/","w","e","e","k">>
D_1to3 == <<"1"," ","t","o"," ","3"," ","m","o","n","t","h","s">>
D_2m == <<"2"," ","m","o","n","t","h","s">>
D_1m == <<"1"," ","m","o","n","t","h">>
D_1Mcap == <<"1"," ","M","o","n","t","h">>
D_750 == <<"$","7","5","0",".","0","0">>
D_Bad == <<"$","1",".","2",".","3">>
D_Trail == <<"$","5",".">>
D_Unspec == <<"u","n","s","p","e","c","i","f","i","e","d">>

HFFragments == {F_Hourly, F_Fixed, F_Range, F_Single, F_Comma, F_BadAmt}
DBFragments == {D_LessThan, D_30plus, D_30, D_1to3, D_2m, D_1m, D_1Mcap, D_750, D_Bad,
                D_Trail, D_Unspec}

MaxHFFrags == 2
MaxDBFrags == 2

\* all concatenations of at most n fragments of F
RECURSIVE Concats(_, _)
Concats(F, n) ==
    IF n = 0 THEN {<< >>}
    ELSE {<< >>} \cup {f \o t : f \in F, t \in Concats(F, n - 1)}

HourlyOrFixedTexts == Concats(HFFragments, MaxHFFrags) \cup {NaNText}
DurationOrBudgetTexts == Concats(DBFragments, MaxDBFrags) \cup {NaNText}

---------------------------------------------------------------------------
(* functions.py called on one record *)

PrepIdle ==
    /\ input = << >> /\ df = << >> /\ columns = << >> /\ pc = "off"
DashIdle ==
    /\ dash_df = << >> /\ selected_search_term = << >> /\ pay_data = << >>
    /\ counts = << >> /\ bins = << >> /\ hover_texts = << >> /\ dpc = "off"
ParseIdle ==
    /\ row = [hourly_or_fixed |-> NaNText, duration_or_budget |-> NaNText]
    /\ called = "off" /\ result = << >>

InitParse ==
    /\ row \in [hourly_or_fixed : HourlyOrFixedTexts,
                 duration_or_budget : DurationOrBudgetTexts]
    /\ called = "none"
    /\ result = << >>
    /\ PrepIdle /\ DashIdle

Call_parse_hourly_rate ==
    /\ called = "none"
    /\ called' = "parse_hourly_rate"
    /\ result' = parse_hourly_rate(row.hourly_or_fixed)
    /\ UNCHANGED << row, prepVars, dashVars >>

Call_parse_hours_per_week ==
    /\ called = "none"
    /\ called' = "parse_hours_per_week"
    /\ result' = << parse_hours_per_week(row.duration_or_budget) >>
    /\ UNCHANGED << row, prepVars, dashVars >>

Call_parse_duration_weeks ==
    /\ called = "none"
    /\ called' = "parse_duration_weeks"
    /\ result' = << parse_duration_weeks(row.duration_or_budget) >>
    /\ UNCHANGED << row, prepVars, dashVars >>

Call_parse_fixed_price ==
    /\ called = "none"
    /\ called' = "parse_fixed_price"
    /\ result' = << parse_fixed_price(row.duration_or_budget) >>
    /\ UNCHANGED << row, prepVars, dashVars >>

Call_estimate_total_pay ==
    /\ called = "none"
    /\ called' = "estimate_total_pay"
    /\ result' = << estimate_total_pay(row) >>
    /\ UNCHANGED << row, prepVars, dashVars >>

NextParse ==
    \/ Call_parse_hourly_rate
    \/ Call_parse_hours_per_week
    \/ Call_parse_duration_weeks
    \/ Call_parse_fixed_price
    \/ Call_estimate_total_pay

SpecParse == InitParse /\ [][NextParse]_vars

---------------------------------------------------------------------------
(* Claims about the parsers and the estimator, checked under SpecParse *)

LessThanPhrase == <<"l","e","s","s"," ","t","h","a","n">>
LessThan1Month == <<"l","e","s","s"," ","t","h","a","n"," ","1"," ","m","o","n","t","h">>

\* the estimator as specified: Hourly is mean(min, max) * H * W with H
\* defaulting to 30 and W to 8, absent when no rate is parseable; Fixed is
\* the fixed price, absent when there is no amount; anything else is absent
SpecifiedEstimate(r) ==
    LET rates == parse_hourly_rate(r.hourly_or_fixed)
        hpw   == parse_hours_per_week(r.duration_or_budget)
        wks   == parse_duration_weeks(r.duration_or_budget)
        H     == IF IsNum(hpw) THEN hpw ELSE Whole(30)
        W     == IF IsNum(wks) THEN wks ELSE Whole(8)
        price == parse_fixed_price(r.duration_or_budget)
    IN  IF isna(r.hourly_or_fixed) THEN NaN
        ELSE IF Contains(lower(r.hourly_or_fixed), HourlyWord)
        THEN IF IsNum(rates[1]) /\ IsNum(rates[2])
             THEN Mul(Mul(Half(Add(rates[1], rates[2])), H), W)
             ELSE NaN
        ELSE IF Contains(lower(r.hourly_or_fixed), FixedWord)
        THEN IF IsNum(price) THEN price ELSE NaN
        ELSE NaN

\* C1: for every record, estimate_total_pay returns the specified estimate:
\* mean(min, max) * H * W for Hourly text (H = 30, W = 8 when absent; absent
\* when no rate is parseable), the fixed price for Fixed text, absent otherwise.
C1_EstimateMatchesSpecified ==
    called = "estimate_total_pay" => result[1] = SpecifiedEstimate(row)

\* C2: for every input, absent or text and however malformed the currency
\* amount, each of the four parsers returns a number or absent and never raises.
C2_ParsersNeverRaise ==
    called \in {"parse_hourly_rate", "parse_hours_per_week",
                "parse_duration_weeks", "parse_fixed_price"}
        => \A i \in 1..Len(result) : result[i] # ValueError

\* C5: parse_duration_weeks returns 2 for any text containing "less than 1
\* month" (case-insensitive) without an "A to B months" range, 8 for "1 to 3
\* months" and 8 for "2 months".
C5_LessThanOneMonthIsTwoWeeks ==
    called = "parse_duration_weeks" =>
        /\ ( /\ ~ isna(row.duration_or_budget)
             /\ Contains(lower(row.duration_or_budget), LessThan1Month)
             /\ ~ \E i \in 1..Len(row.duration_or_budget) :
                     RangeMonthsAt(row.duration_or_budget, i).found )
                => result[1] = Whole(2)
        /\ row.duration_or_budget = D_1to3 => result[1] = Whole(8)
        /\ row.duration_or_budget = D_2m => result[1] = Whole(8)

\* C6: parse_hours_per_week returns 25 for "Less than 30 hrs/week", 30 for
\* "30+ hrs/week", and absent for text with neither an hours-per-week figure
\* nor the phrase "less than".
C6_LessThanThirtyIsTwentyFive ==
    called = "parse_hours_per_week" =>
        /\ row.duration_or_budget = D_LessThan \o D_30 => result[1] = Whole(25)
        /\ row.duration_or_budget = D_30plus => result[1] = Whole(30)
        /\ ( /\ ~ isna(row.duration_or_budget)
             /\ ~ \E i \in 1..Len(row.duration_or_budget) :
                     HoursAt(row.duration_or_budget, i).found
             /\ ~ Contains(lower(row.duration_or_budget), LessThanPhrase) )
                => result[1] = NaN

---------------------------------------------------------------------------
(* 1-data_prep.py *)

(* The table df is a sequence of rows [idx, cells]: idx is the row's index  *)
(* label (its position in the loaded file) and cells maps each column name *)
(* of the table to the row's value.  columns is the column order.          *)

Range(f) == {f[i] : i \in DOMAIN f}

SkillCols == << "skill_1", "skill_2", "skill_3", "skill_4", "skill_5", "skill_6",
                "skill_7", "skill_8", "skill_9", "skill_10", "skill_11",
                "skill_12", "skill_13" >>

NumSkills == 13

\* the 31 column names given to the loaded table
column_names == <<
    "date_posted", "job_title", "job_url", "search_term", "payment_status",
    "client_rating_text", "client_rating_value", "client_rating_details",
    "client_total_spent", "spent", "client_location", "hourly_or_fixed",
    "job_expertise_level", "est_time_or_budget", "duration_or_budget",
    "job_description", "skill_1", "skill_2", "skill_3", "skill_4", "skill_5",
    "num_proposals", "proposals_range", "skill_6", "skill_7", "skill_8",
    "skill_9", "skill_10", "skill_11", "skill_12", "skill_13" >>

cols_to_keep == <<
    "job_title", "job_url", "search_term",
    "hourly_or_fixed", "est_time_or_budget", "duration_or_budget", "job_description",
    "skill_1", "skill_2", "skill_3", "skill_4", "skill_5", "skill_6", "skill_7",
    "skill_8", "skill_9", "skill_10", "skill_11", "skill_12", "skill_13" >>

reordered_columns == <<
    "job_title", "job_url", "search_term",
    "pay_type", "hourly_rate_min", "hourly_rate_max", "est_hours_per_week",
    "est_duration_weeks", "fixed_price", "estimated_total_pay", "job_description",
    "skill_1", "skill_2", "skill_3", "skill_4", "skill_6", "skill_7",
    "skill_8", "skill_9", "skill_10", "skill_11", "skill_12", "skill_13" >>

\* df[name] as a sequence of values
Column(d, name) == [i \in 1..Len(d) |-> d[i].cells[name]]

\* df[cols]: keep the listed columns only
SelectColumns(d, cols) ==
    [i \in 1..Len(d) |->
        [d[i] EXCEPT !.cells = [c \in Range(cols) |-> d[i].cells[c]]]]

\* df[name] = values
SetColumn(d, name, values) ==
    [i \in 1..Len(d) |->
        [d[i] EXCEPT !.cells =
            [c \in (DOMAIN d[i].cells) \cup {name} |->
                IF c = name THEN values[i] ELSE d[i].cells[c]]]]

\* the column order after df[name] = ...: a new column is appended
WithColumn(cols, name) ==
    IF name \in Range(cols) THEN cols ELSE Append(cols, name)

\* df[mask]: the rows at the positions in keep, in order
RECURSIVE Rows(_, _, _)
Rows(d, keep, i) ==
    IF i > Len(d) THEN << >>
    ELSE IF i \in keep THEN << d[i] >> \o Rows(d, keep, i + 1)
    ELSE Rows(d, keep, i + 1)

\* df.drop_duplicates("job_url", keep='last'): the last row of each URL
drop_duplicates_last(d) ==
    Rows(d, {i \in 1..Len(d) :
                \A j \in (i + 1)..Len(d) : d[j].cells["job_url"] # d[i].cells["job_url"]}, 1)

\* df.drop_duplicates("job_url"): the default keep='first'
drop_duplicates(d) ==
    Rows(d, {i \in 1..Len(d) :
                \A j \in 1..(i - 1) : d[j].cells["job_url"] # d[i].cells["job_url"]}, 1)

\* the table with no row removed
notna_filter_keep_all(d) == d

\* df[df['estimated_total_pay'].notna()]
notna_filter(d) ==
    Rows(d, {i \in 1..Len(d) : ~ isnan(d[i].cells["estimated_total_pay"])}, 1)

\* the record a row presents to estimate_total_pay
AsRecord(r) == [hourly_or_fixed |-> r.cells["hourly_or_fixed"],
                duration_or_budget |-> r.cells["duration_or_budget"]]

---------------------------------------------------------------------------
(* Input tables *)

MaxRows == 2

OtherText == << "x" >>

URLs == {<<"u","1">>, <<"u","2">>}

T_AI == <<"A","I">>
T_Data == <<"D","a","t","a">>
T_Rust == <<"R","u","s","t">>
SearchTerms == {NaNText, T_AI, T_Data, T_Rust}

\* pay-type text and duration/budget text of a posting
PayTexts == {
    << F_Hourly \o F_Range, D_LessThan \o D_30 >>,
    << F_Fixed, D_750 >>,
    << F_Fixed \o F_Single, D_750 >>,
    << F_Fixed, D_Unspec >>,
    << F_Hourly \o F_BadAmt, D_1to3 >>,
    << F_Fixed, D_Bad >> }

S_Plus4 == <<"+","4">>
S_ml == <<"m","l">>
S_Learning == <<"L","e","a","r","n","i","n","g">>
S_SQL == <<" ","S","Q","L"," ">>
S_PowerBI == <<"p","o","w","e","r"," ","B","I">>
SkillTexts == << S_ml, NaNText, S_Plus4, S_SQL, S_Learning, S_PowerBI >>

\* the skill tag in slot k of the row loaded at position i
SkillAt(i, k) == SkillTexts[((i + k) % Len(SkillTexts)) + 1]

RowChoices == [job_url : URLs, search_term : SearchTerms, pay : PayTexts]

LoadedRow(i, ch) ==
    [idx |-> i,
     cells |-> [c \in Range(column_names) |->
        IF c = "job_url" THEN ch.job_url
        ELSE IF c = "search_term" THEN ch.search_term
        ELSE IF c = "hourly_or_fixed" THEN ch.pay[1]
        ELSE IF c = "duration_or_budget" THEN ch.pay[2]
        ELSE IF \E k \in 1..NumSkills : SkillCols[k] = c
             THEN SkillAt(i, CHOOSE k \in 1..NumSkills : SkillCols[k] = c)
        ELSE OtherText]]

\* the table loaded from the choices made for its rows
LoadedTable(chs) == [i \in 1..Len(chs) |-> LoadedRow(i, chs[i])]

---------------------------------------------------------------------------
(* The pipeline, one action per statement of the script *)

InitPrep ==
    /\ \E n \in 1..MaxRows : \E chs \in [1..n -> RowChoices] :
            input = LoadedTable(chs)
    /\ df = input
    /\ columns = column_names
    /\ pc = "loaded"
    /\ ParseIdle /\ DashIdle

Goto(to, newdf, newcols) ==
    /\ pc' = to
    /\ df' = newdf
    /\ columns' = newcols
    /\ UNCHANGED << input, parseVars, dashVars >>

\* a statement that raised: the script stops with the table as it was
Crash ==
    /\ pc' = "crashed"
    /\ UNCHANGED << df, columns, input, parseVars, dashVars >>

\* df = df[cols_to_keep]
KeepColumns ==
    /\ pc = "loaded"
    /\ Goto("selected", SelectColumns(df, cols_to_keep), cols_to_keep)

\* df = df.drop_duplicates("job_url")
DropDuplicates ==
    /\ pc = "selected"
    /\ Goto("deduped", drop_duplicates(df), columns)

\* df['pay_type'] = df['hourly_or_fixed'].apply(get_pay_type)
AddPayType ==
    /\ pc = "deduped"
    /\ Goto("pay_type",
         SetColumn(df, "pay_type",
                   [i \in 1..Len(df) |-> get_pay_type(df[i].cells["hourly_or_fixed"])]),
         WithColumn(columns, "pay_type"))

\* df[['hourly_rate_min', 'hourly_rate_max']] = df['hourly_or_fixed'].apply(...)
AddHourlyRates ==
    /\ pc = "pay_type"
    /\ LET rates == [i \in 1..Len(df) |->
                        parse_hourly_rate(df[i].cells["hourly_or_fixed"])]
       IN  IF \E i \in 1..Len(df) : rates[i][1] = ValueError
           THEN Crash
           ELSE Goto("rates",
                  SetColumn(SetColumn(df, "hourly_rate_min",
                                      [i \in 1..Len(df) |-> rates[i][1]]),
                            "hourly_rate_max", [i \in 1..Len(df) |-> rates[i][2]]),
                  WithColumn(WithColumn(columns, "hourly_rate_min"), "hourly_rate_max"))

\* df['est_hours_per_week'] = df['duration_or_budget'].apply(parse_hours_per_week)
AddHoursPerWeek ==
    /\ pc = "rates"
    /\ Goto("hours",
         SetColumn(df, "est_hours_per_week",
                   [i \in 1..Len(df) |->
                       parse_hours_per_week(df[i].cells["duration_or_budget"])]),
         WithColumn(columns, "est_hours_per_week"))

\* df['est_duration_weeks'] = df['duration_or_budget'].apply(parse_duration_weeks)
AddDurationWeeks ==
    /\ pc = "hours"
    /\ Goto("weeks",
         SetColumn(df, "est_duration_weeks",
                   [i \in 1..Len(df) |->
                       parse_duration_weeks(df[i].cells["duration_or_budget"])]),
         WithColumn(columns, "est_duration_weeks"))

\* df['fixed_price'] = df['duration_or_budget'].apply(parse_fixed_price)
AddFixedPrice ==
    /\ pc = "weeks"
    /\ LET prices == [i \in 1..Len(df) |->
                         parse_fixed_price(df[i].cells["duration_or_budget"])]
       IN  IF \E i \in 1..Len(df) : prices[i] = ValueError
           THEN Crash
           ELSE Goto("price", SetColumn(df, "fixed_price", prices),
                  WithColumn(columns, "fixed_price"))

\* df['estimated_total_pay'] = df.apply(estimate_total_pay, axis=1)
AddEstimatedTotalPay ==
    /\ pc = "price"
    /\ LET pays == [i \in 1..Len(df) |-> estimate_total_pay(AsRecord(df[i]))]
       IN  IF \E i \in 1..Len(df) : pays[i] = ValueError
           THEN Crash
           ELSE Goto("estimated", SetColumn(df, "estimated_total_pay", pays),
                  WithColumn(columns, "estimated_total_pay"))

\* df = df[df['estimated_total_pay'].notna()]
DropAbsentPay ==
    /\ pc = "estimated"
    /\ Goto("filtered", notna_filter(df), columns)

\* df = df.drop(columns=['hourly_or_fixed', 'duration_or_budget'])
DropTextColumns ==
    /\ pc = "filtered"
    /\ LET rest == SelectSeq(columns,
                       LAMBDA c : c \notin {"hourly_or_fixed", "duration_or_budget"})
       IN  Goto("dropped", SelectColumns(df, rest), rest)

\* df = df[[...]]: the reorder lists every skill column but skill_5
ReorderColumns ==
    /\ pc = "dropped"
    /\ Goto("reordered", SelectColumns(df, reordered_columns),
         reordered_columns)

\* df = standardize_search_term_column(df).  A search_term column with no
\* value in any loaded row was read as float64, and .str raises on it.
StandardizeSearchTerm ==
    /\ pc = "reordered"
    /\ IF \A i \in 1..Len(input) : isna(input[i].cells["search_term"])
       THEN Crash
       ELSE Goto("standardized",
                 SetColumn(df, "search_term",
                           standardize_search_term_column(Column(df, "search_term"))),
                 columns)

\* for col in skill_cols: df[col] = df[col].apply(clean_and_standardize_skill)
RECURSIVE CleanSkillColumns(_, _)
CleanSkillColumns(d, cols) ==
    IF cols = << >> THEN d
    ELSE CleanSkillColumns(
            SetColumn(d, Head(cols),
                      [i \in 1..Len(d) |->
                          clean_and_standardize_skill(d[i].cells[Head(cols)])]),
            Tail(cols))

CleanSkills ==
    /\ pc = "standardized"
    /\ LET skill_cols == SelectSeq(columns, LAMBDA c : c \in Range(SkillCols))
       IN  Goto("cleaned", CleanSkillColumns(df, skill_cols), columns)

\* df.to_csv("data/upwork-cleaned.csv"): df is the final dataset
Save ==
    /\ pc = "cleaned"
    /\ Goto("done", df, columns)

NextPrep ==
    \/ KeepColumns
    \/ DropDuplicates
    \/ AddPayType
    \/ AddHourlyRates
    \/ AddHoursPerWeek
    \/ AddDurationWeeks
    \/ AddFixedPrice
    \/ AddEstimatedTotalPay
    \/ DropAbsentPay
    \/ DropTextColumns
    \/ ReorderColumns
    \/ StandardizeSearchTerm
    \/ CleanSkills
    \/ Save

SpecPrep == InitPrep /\ [][NextPrep]_vars

---------------------------------------------------------------------------
(* Claims about the final dataset, checked under SpecPrep *)

AfterDedup == {"deduped", "pay_type", "rates", "hours", "weeks", "price", "estimated",
               "filtered", "dropped", "reordered", "standardized", "cleaned", "done"}
AfterFilter == {"filtered", "dropped", "reordered", "standardized", "cleaned", "done"}

Present(r, col) == col \in DOMAIN r.cells /\ IsNum(r.cells[col])

\* C3: once the absent-pay filter has run, every record of the table has
\* estimated_total_pay present, through every later step up to the final dataset.
C3_RetainedRecordsHavePay ==
    pc \in AfterFilter =>
        /\ "estimated_total_pay" \in Range(columns)
        /\ \A i \in 1..Len(df) : Present(df[i], "estimated_total_pay")

\* a final dataset that kept a record while a loaded record without a pay
\* estimate was discarded
C3_Witness ==
    /\ pc = "done"
    /\ Len(df) >= 1
    /\ \E i \in 1..Len(input) :
          /\ isnan(estimate_total_pay(AsRecord(input[i])))
          /\ \A j \in 1..Len(df) : df[j].idx # i

\* the search-term bucket of a raw search term
Bucket(term) == Lookup(search_term_map, lower(term), NaNText)

\* C4: in the final dataset, a record whose loaded search term was absent has
\* the bucket of the most recent non-absent search term above it among ALL
\* loaded rows (absent when no loaded row above it has one).
C4_FillFromLoadedRowsAbove ==
    pc = "done" =>
        \A i \in 1..Len(df) :
            LET n == df[i].idx
                above == {j \in 1..(n - 1) : ~ isna(input[j].cells["search_term"])}
            IN  isna(input[n].cells["search_term"]) =>
                    df[i].cells["search_term"] =
                        IF above = {} THEN NaNText
                        ELSE Bucket(input[CHOOSE j \in above :
                                        \A m \in above : m <= j].cells["search_term"])

PayHourly == <<"H","o","u","r","l","y">>
PayFixed == <<"F","i","x","e","d">>

\* C7: in every record of the final dataset, hourly_rate_min and
\* hourly_rate_max are present only if pay_type is Hourly, and fixed_price is
\* present only if pay_type is Fixed.
C7_RatesOnlyForTheirPayType ==
    pc = "done" =>
        \A i \in 1..Len(df) :
            /\ (Present(df[i], "hourly_rate_min") \/ Present(df[i], "hourly_rate_max"))
                  => df[i].cells["pay_type"] = PayHourly
            /\ Present(df[i], "fixed_price") => df[i].cells["pay_type"] = PayFixed

\* C8: after deduplication no two records share a job URL, each loaded record
\* yields at most one record, the record kept for a URL is its first
\* occurrence in the loaded order, and deduplicating again changes nothing.
C8_UniqueURLFirstOccurrence ==
    pc \in AfterDedup =>
        /\ \A i, j \in 1..Len(df) :
              i # j => /\ df[i].cells["job_url"] # df[j].cells["job_url"]
                       /\ df[i].idx # df[j].idx
        /\ \A i \in 1..Len(df) :
              /\ df[i].cells["job_url"] = input[df[i].idx].cells["job_url"]
              /\ \A j \in 1..(df[i].idx - 1) :
                    input[j].cells["job_url"] # df[i].cells["job_url"]
        /\ drop_duplicates(df) = df

\* a final dataset holding the first of two loaded records with one URL
C8_Witness ==
    /\ pc = "done"
    /\ \E i, j \in 1..Len(input) :
          /\ i < j
          /\ input[i].cells["job_url"] = input[j].cells["job_url"]
          /\ \E m \in 1..Len(df) : df[m].idx = i

\* C9: every skill slot skill_1 .. skill_13 of a retained record is a column
\* of the final dataset and holds clean_and_standardize_skill of the loaded value.
C9_NoSkillSlotLost ==
    pc = "done" =>
        \A i \in 1..Len(df) : \A k \in 1..NumSkills :
            /\ SkillCols[k] \in Range(columns)
            /\ SkillCols[k] \in DOMAIN df[i].cells
            /\ df[i].cells[SkillCols[k]] =
                  clean_and_standardize_skill(input[df[i].idx].cells[SkillCols[k]])

---------------------------------------------------------------------------
(* 2-create_dashboard.py: the search-term filter and the pay histogram *)

(* dash_df is the cleaned table as the dashboard reads it, reduced to the  *)
(* two columns the histogram depends on.  The key-stat metrics and the     *)
(* skill chart read the same table and write nothing the histogram reads.  *)

MaxJobs == 3

nbins == 20

AllTerms == <<"A","l","l">>
DashTerms == {T_AI, NaNText}
DashPays == {Whole(0), Whole(1), Whole(2), Whole(20), Whole(21)}

Less(x, y) == x.n * y.d < y.n * x.d
Leq(x, y) == x.n * y.d <= y.n * x.d
Sub(x, y) == Rat(x.n * y.d - y.n * x.d, x.d * y.d)

RECURSIVE Sum(_)
Sum(xs) == IF xs = << >> THEN Whole(0) ELSE Add(Head(xs), Sum(Tail(xs)))

\* Series.mean()
Mean(xs) == Mul(Sum(xs), Rat(1, Len(xs)))

Min(xs) == CHOOSE x \in Range(xs) : \A y \in Range(xs) : Leq(x, y)
Max(xs) == CHOOSE x \in Range(xs) : \A y \in Range(xs) : Leq(y, x)

\* the nbins + 1 edges np.histogram spreads evenly over [min, max]; a range of
\* zero width is widened by 0.5 on each side
Edges(xs) ==
    LET lo == IF Min(xs) = Max(xs) THEN Sub(Min(xs), Rat(1, 2)) ELSE Min(xs)
        hi == IF Min(xs) = Max(xs) THEN Add(Max(xs), Rat(1, 2)) ELSE Max(xs)
    IN  [i \in 1..(nbins + 1) |->
            Add(lo, Mul(Sub(hi, lo), Rat(i - 1, nbins)))]

\* np.histogram: every bin is half-open but the last, which includes its
\* right edge
InHistogramBin(x, e, i) ==
    /\ Leq(e[i], x)
    /\ IF i = nbins THEN Leq(x, e[i + 1]) ELSE Less(x, e[i + 1])

\* bin_mask = (pay_data >= bins[i]) & (pay_data < bins[i+1])
InHoverBin(x, e, i) ==
    Leq(e[i], x) /\ Less(x, e[i + 1])

InitDash ==
    /\ \E n \in 0..MaxJobs :
          dash_df \in [1..n -> [search_term : DashTerms, estimated_total_pay : DashPays]]
    /\ selected_search_term = << >>
    /\ pay_data = << >>
    /\ counts = << >>
    /\ bins = << >>
    /\ hover_texts = << >>
    /\ dpc = "loaded"
    /\ ParseIdle /\ PrepIdle

\* selected_search_term = st.selectbox(..., ['All'] + sorted(unique terms))
SelectSearchTerm ==
    /\ dpc = "loaded"
    /\ \E t \in {AllTerms} \cup {dash_df[i].search_term : i \in 1..Len(dash_df)} :
          /\ ~ isna(t)
          /\ selected_search_term' = t
    /\ dpc' = "selected"
    /\ UNCHANGED << dash_df, pay_data, counts, bins, hover_texts, parseVars, prepVars >>

\* filtered_df, then pay_data = its estimated_total_pay, dropna(), > 0
filtered_df ==
    IF selected_search_term # AllTerms
    THEN SelectSeq(dash_df, LAMBDA r : r.search_term = selected_search_term)
    ELSE dash_df

FilterPayData ==
    /\ dpc = "selected"
    /\ pay_data' =
          SelectSeq(SelectSeq([i \in 1..Len(filtered_df) |-> filtered_df[i].estimated_total_pay],
                      LAMBDA x : ~ isnan(x)),
                LAMBDA x : Less(Whole(0), x))
    /\ dpc' = "filtered"
    /\ UNCHANGED << dash_df, selected_search_term, counts, bins, hover_texts,
                    parseVars, prepVars >>

\* st.info("No estimated total pay data available for this selection.")
NoPayData ==
    /\ dpc = "filtered"
    /\ Len(pay_data) = 0
    /\ dpc' = "no_data"
    /\ UNCHANGED << dash_df, selected_search_term, pay_data, counts, bins, hover_texts,
                    parseVars, prepVars >>

\* counts, bins = np.histogram(pay_data, bins=nbins)
Histogram ==
    /\ dpc = "filtered"
    /\ Len(pay_data) # 0
    /\ bins' = Edges(pay_data)
    /\ counts' = [i \in 1..nbins |->
                    Len(SelectSeq(pay_data,
                        LAMBDA x : InHistogramBin(x, Edges(pay_data), i)))]
    /\ dpc' = "binned"
    /\ UNCHANGED << dash_df, selected_search_term, pay_data, hover_texts,
                    parseVars, prepVars >>

\* the loop that prepares the hover text of each bar
HoverTexts ==
    /\ dpc = "binned"
    /\ hover_texts' =
          [i \in 1..nbins |->
              LET jobs_in_bin == SelectSeq(pay_data, LAMBDA x : InHoverBin(x, bins, i))
                  count == Len(jobs_in_bin)
              IN  [lo |-> bins[i], hi |-> bins[i + 1], jobs |-> count,
                   avg_pay |-> IF count > 0 THEN Mean(jobs_in_bin) ELSE Whole(0)]]
    /\ dpc' = "hover"
    /\ UNCHANGED << dash_df, selected_search_term, pay_data, counts, bins,
                    parseVars, prepVars >>

\* go.Bar(y=counts, hovertext=hover_texts) and st.plotly_chart
PlotChart ==
    /\ dpc = "hover"
    /\ dpc' = "plotted"
    /\ UNCHANGED << dash_df, selected_search_term, pay_data, counts, bins, hover_texts,
                    parseVars, prepVars >>

NextDash ==
    \/ SelectSearchTerm
    \/ FilterPayData
    \/ NoPayData
    \/ Histogram
    \/ HoverTexts
    \/ PlotChart

SpecDash == InitDash /\ [][NextDash]_vars

\* C10: for every selection with at least one positive estimated_total_pay,
\* the job count in each bin's hover text equals that bin's bar height, for
\* all 20 bins, so the hover counts sum to the number of positive-pay records.
C10_HoverCountEqualsBarHeight ==
    dpc = "plotted" =>
        /\ \A i \in 1..nbins : hover_texts[i].jobs = counts[i]
        /\ Sum([i \in 1..nbins |-> Whole(hover_texts[i].jobs)]) = Whole(Len(pay_data))

===========================================================================
